---- MODULE Spec2Model ----
(***************************************************************************)
(* SwasthBot (swasthbot_with_herbs.py): one run of the Streamlit script.   *)
(* The script loads the disease spreadsheet, builds the symptom map and    *)
(* the sorted symptom vocabulary, answers the disease-name search and then *)
(* runs the symptom checker.  Text is modelled as a sequence of one-       *)
(* character strings so that split / strip / lower are computed.           *)
(***************************************************************************)
EXTENDS Integers, Sequences, FiniteSets, TLC

VARIABLES
    file,            \* the spreadsheet at EXCEL_PATH (environment)
    text_input,      \* text typed (or spoken) into the search box
    px,              \* TRUE when plotly.express was imported, FALSE when px = None
    pc,              \* position of the script run
    df,              \* the loaded table: sequence of rows
    error,           \* the st.error shown by load_disease_data ("" when none)
    symptom_map,     \* dict token -> list of names, in insertion order
    all_symptoms,    \* sorted(all_symptoms): sequence of tokens
    query,           \* the stripped, lowercased search text
    search,          \* outcome of the name search
    symptom_input,   \* the tokens selected in the multiselect
    disease_scores,  \* dict name -> score, in insertion order
    risk_levels,     \* dict name -> risk level, in insertion order
    report           \* what the symptom checker showed

vars == <<file, text_input, px, pc, df, error, symptom_map, all_symptoms, query,
          search, symptom_input, disease_scores, risk_levels, report>>

(***************************************************************************)
(* Bounds of the model.                                                    *)
(***************************************************************************)
MaxRecords == 2
MaxPieces == 2
MaxQueryLen == 2

(***************************************************************************)
(* Text.                                                                   *)
(***************************************************************************)
\* str.lower() on one character
LowerChar(c) ==
    CASE c = "A" -> "a"
      [] c = "B" -> "b"
      [] c = "E" -> "e"
      [] c = "M" -> "m"
      [] c = "N" -> "n"
      [] OTHER -> c

\* str.lower()
lower(s) == [i \in 1..Len(s) |-> LowerChar(s[i])]

RECURSIVE lstrip(_)
lstrip(s) == IF s # <<>> /\ Head(s) = " " THEN lstrip(Tail(s)) ELSE s

RECURSIVE rstrip(_)
rstrip(s) ==
    IF s # <<>> /\ s[Len(s)] = " " THEN rstrip(SubSeq(s, 1, Len(s) - 1)) ELSE s

\* str.strip()
strip(s) == rstrip(lstrip(s))

RECURSIVE SplitAt(_, _, _, _)
SplitAt(s, i, cur, acc) ==
    IF i > Len(s) THEN Append(acc, cur)
    ELSE IF s[i] = "," THEN SplitAt(s, i + 1, <<>>, Append(acc, cur))
    ELSE SplitAt(s, i + 1, Append(cur, s[i]), acc)

\* str.split(","): "" gives [""], "a," gives ["a", ""]
split(s) == SplitAt(s, 1, <<>>, <<>>)

\* code point of a character
Ord(c) ==
    CASE c = " " -> 32
      [] c = "(" -> 40
      [] c = "*" -> 42
      [] c = "," -> 44
      [] c = "." -> 46
      [] c = "A" -> 65
      [] c = "B" -> 66
      [] c = "E" -> 69
      [] c = "M" -> 77
      [] c = "N" -> 78
      [] c = "a" -> 97
      [] c = "b" -> 98
      [] c = "d" -> 100
      [] c = "e" -> 101
      [] c = "i" -> 105
      [] c = "m" -> 109
      [] c = "n" -> 110
      [] c = "x" -> 120
      [] c = "y" -> 121
      [] OTHER -> 122

\* s < t for Python str
RECURSIVE StrLess(_, _)
StrLess(s, t) ==
    IF t = <<>> THEN FALSE
    ELSE IF s = <<>> THEN TRUE
    ELSE IF Head(s) = Head(t) THEN StrLess(Tail(s), Tail(t))
    ELSE Ord(Head(s)) < Ord(Head(t))

\* the elements of a list
ToSet(l) == {l[i] : i \in 1..Len(l)}

(***************************************************************************)
(* Cells of the table.  An empty spreadsheet cell is read as NaN, and      *)
(* str(NaN) is "nan".                                                      *)
(***************************************************************************)
NaN == <<"NaN">>

str(cell) == IF cell = NaN THEN <<"n", "a", "n">> ELSE cell

(***************************************************************************)
(* dict / defaultdict(list), kept as a list of <<key, value>> in insertion *)
(* order.                                                                  *)
(***************************************************************************)
DictKeys(d) == [i \in 1..Len(d) |-> d[i][1]]

DictHas(d, k) == \E i \in 1..Len(d) : d[i][1] = k

DictGet(d, k) == d[CHOOSE i \in 1..Len(d) : d[i][1] = k][2]

\* d[k] = v: a new key goes last, an existing key keeps its place
DictSet(d, k, v) ==
    IF DictHas(d, k)
    THEN [i \in 1..Len(d) |-> IF d[i][1] = k THEN <<k, v>> ELSE d[i]]
    ELSE Append(d, <<k, v>>)

\* d[k].append(v) on a defaultdict(list)
DictAppend(d, k, v) ==
    IF DictHas(d, k) THEN DictSet(d, k, Append(DictGet(d, k), v))
    ELSE Append(d, <<k, <<v>>>>)

(***************************************************************************)
(* load_disease_data                                                       *)
(***************************************************************************)
COL_NAME == <<"n", "a", "m", "e">>
COL_SYMPTOMS == <<"s", "y", "m", "p", "t", "o", "m", "s">>
COL_RED_FLAGS == <<"r", "e", "d", "_", "f", "l", "a", "g", "s">>

\* df.columns = [c.strip().lower() for c in df.columns]
NormColumns(cols) == [i \in 1..Len(cols) |-> lower(strip(cols[i]))]

\* the cell of a row under a column; "" when the column was defaulted
Cell(cols, row, col) ==
    IF col \in ToSet(cols)
    THEN row[CHOOSE i \in 1..Len(cols) : cols[i] = col]
    ELSE <<>>

\* the load without the check for the 'name' column
load_without_name_check(f) ==
    IF f.kind = "notfound" THEN [ok |-> FALSE, error |-> "not found", df |-> <<>>]
    ELSE IF f.kind = "unreadable" THEN [ok |-> FALSE, error |-> "error loading", df |-> <<>>]
    ELSE [ok |-> TRUE, error |-> "",
          df |-> [i \in 1..Len(f.rows) |->
                    [name |-> lower(str(Cell(NormColumns(f.columns), f.rows[i], COL_NAME))),
                     symptoms |-> Cell(NormColumns(f.columns), f.rows[i], COL_SYMPTOMS),
                     red_flags |-> Cell(NormColumns(f.columns), f.rows[i], COL_RED_FLAGS)]]]

\* the value the call returns, or the error it stops the script with
load_disease_data(f) ==
    IF f.kind = "notfound" THEN [ok |-> FALSE, error |-> "not found", df |-> <<>>]
    ELSE IF f.kind = "unreadable" THEN [ok |-> FALSE, error |-> "error loading", df |-> <<>>]
    ELSE LET cols == NormColumns(f.columns) IN
         IF COL_NAME \notin ToSet(cols)
         THEN [ok |-> FALSE, error |-> "no name column", df |-> <<>>]
         ELSE [ok |-> TRUE, error |-> "",
               df |-> [i \in 1..Len(f.rows) |->
                         [name |-> lower(str(Cell(cols, f.rows[i], COL_NAME))),
                          symptoms |-> Cell(cols, f.rows[i], COL_SYMPTOMS),
                          red_flags |-> Cell(cols, f.rows[i], COL_RED_FLAGS)]]]

(***************************************************************************)
(* Symptom map and vocabulary                                              *)
(***************************************************************************)
\* the comprehension without .lower()
RECURSIVE StripKeptOnly(_)
StripKeptOnly(pieces) ==
    IF pieces = <<>> THEN <<>>
    ELSE IF strip(Head(pieces)) # <<>>
         THEN <<strip(Head(pieces))>> \o StripKeptOnly(Tail(pieces))
         ELSE StripKeptOnly(Tail(pieces))

\* [x.strip().lower() for x in pieces if x.strip()]
RECURSIVE StripLowerKept(_)
StripLowerKept(pieces) ==
    IF pieces = <<>> THEN <<>>
    ELSE IF strip(Head(pieces)) # <<>>
         THEN <<lower(strip(Head(pieces)))>> \o StripLowerKept(Tail(pieces))
         ELSE StripLowerKept(Tail(pieces))

\* the tokens of one row in the symptom map loop
MapTokens(r) == StripLowerKept(split(str(r.symptoms)))

\* the inner loop: symptom_map[s].append(r['name'])
RECURSIVE AppendName(_, _, _)
AppendName(map, toks, name) ==
    IF toks = <<>> THEN map
    ELSE AppendName(DictAppend(map, Head(toks), name), Tail(toks), name)

\* the outer loop over df.iterrows()
RECURSIVE BuildSymptomMap(_, _)
BuildSymptomMap(rows, map) ==
    IF rows = <<>> THEN map
    ELSE BuildSymptomMap(Tail(rows), AppendName(map, MapTokens(Head(rows)), Head(rows).name))

\* the set all_symptoms after the loop
SymptomSet(rows) == UNION {ToSet(MapTokens(rows[i])) : i \in 1..Len(rows)}

\* sorted(a set of str)
RECURSIVE sorted(_)
sorted(S) ==
    IF S = {} THEN <<>>
    ELSE LET m == CHOOSE x \in S : \A y \in S \ {x} : StrLess(x, y)
         IN <<m>> \o sorted(S \ {m})

(***************************************************************************)
(* Disease name search: df['name'].str.contains(query, case=False)         *)
(* compiles the query as a regular expression.                             *)
(***************************************************************************)
\* re.compile raises re.error
RegexError(q) ==
    \E i \in 1..Len(q) :
        \/ q[i] = "("
        \/ q[i] = "*" /\ (i = 1 \/ q[i - 1] = "*")

\* the pattern as a list of atoms, each starred or not
RECURSIVE Atoms(_)
Atoms(q) ==
    IF q = <<>> THEN <<>>
    ELSE IF Len(q) >= 2 /\ q[2] = "*"
         THEN <<[ch |-> q[1], star |-> TRUE]>> \o Atoms(SubSeq(q, 3, Len(q)))
         ELSE <<[ch |-> q[1], star |-> FALSE]>> \o Atoms(Tail(q))

\* one atom against one character, under re.IGNORECASE
AtomMatches(a, c) == a.ch = "." \/ LowerChar(a.ch) = LowerChar(c)

\* the atoms match a prefix of s
RECURSIVE MatchHere(_, _)
MatchHere(atoms, s) ==
    IF atoms = <<>> THEN TRUE
    ELSE IF Head(atoms).star
         THEN \/ MatchHere(Tail(atoms), s)
              \/ s # <<>> /\ AtomMatches(Head(atoms), Head(s)) /\ MatchHere(atoms, Tail(s))
         ELSE s # <<>> /\ AtomMatches(Head(atoms), Head(s)) /\ MatchHere(Tail(atoms), Tail(s))

\* regex.search(s)
re_search(q, s) == \E i \in 1..(Len(s) + 1) : MatchHere(Atoms(q), SubSeq(s, i, Len(s)))

\* the row positions of df[df['name'].str.contains(query, case=False, na=False)]
matches(rows, q) == {i \in 1..Len(rows) : re_search(q, rows[i].name)}

\* the search block: its outcome for a query
name_search(rows, q) ==
    IF q = <<>> THEN [state |-> "idle", row |-> 0]
    ELSE IF RegexError(q) THEN [state |-> "error", row |-> 0]
    ELSE IF matches(rows, q) # {}
         THEN [state |-> "found",
               row |-> CHOOSE i \in matches(rows, q) : \A j \in matches(rows, q) : i <= j]
         ELSE [state |-> "notfound", row |-> 0]

(***************************************************************************)
(* Symptom checker                                                         *)
(***************************************************************************)
\* [s.strip() for s in pieces if s.strip()]
RECURSIVE StripKept(_)
StripKept(pieces) ==
    IF pieces = <<>> THEN <<>>
    ELSE IF strip(Head(pieces)) # <<>>
         THEN <<strip(Head(pieces))>> \o StripKept(Tail(pieces))
         ELSE StripKept(Tail(pieces))

\* disease_symptoms of a row (a list)
disease_symptoms(row) == StripKept(split(lower(str(row.symptoms))))

\* red_flags of a row (a list)
red_flags(row) == StripKept(split(lower(str(row.red_flags))))

\* a score that also counts the red flags matched
score_with_red_flags(row, sel) ==
    Cardinality(sel \cap (ToSet(disease_symptoms(row)) \cup ToSet(red_flags(row))))

\* score = len(set(symptom_input) & set(disease_symptoms))
score(row, sel) == Cardinality(sel \cap ToSet(disease_symptoms(row)))

Max(a, b) == IF a >= b THEN a ELSE b

\* the if / elif / else of the risk level
risk_level(row, sel) ==
    IF Cardinality(sel \cap ToSet(red_flags(row))) > 0 THEN "High"
    ELSE IF 2 * score(row, sel) > Max(Len(disease_symptoms(row)), 1) THEN "Medium"
    ELSE "Low"

\* the loop over df.iterrows(): <<disease_scores, risk_levels>> at its end
RECURSIVE ScoreRows(_, _, _, _)
ScoreRows(rows, sel, ds, rl) ==
    IF rows = <<>> THEN <<ds, rl>>
    ELSE IF score(Head(rows), sel) > 0
         THEN ScoreRows(Tail(rows), sel,
                        DictSet(ds, Head(rows).name, score(Head(rows), sel)),
                        DictSet(rl, Head(rows).name, risk_level(Head(rows), sel)))
         ELSE ScoreRows(Tail(rows), sel, ds, rl)

\* an insertion that puts the item before its equals
RECURSIVE InsertBeforeEquals(_, _)
InsertBeforeEquals(item, l) ==
    IF l = <<>> THEN <<item>>
    ELSE IF Head(l)[2] > item[2] THEN <<Head(l)>> \o InsertBeforeEquals(item, Tail(l))
    ELSE <<item>> \o l

\* one item into a list already in descending order of score, after its equals
RECURSIVE InsertByScore(_, _)
InsertByScore(item, l) ==
    IF l = <<>> THEN <<item>>
    ELSE IF Head(l)[2] >= item[2] THEN <<Head(l)>> \o InsertByScore(item, Tail(l))
    ELSE <<item>> \o l

\* sorted(disease_scores.items(), key=lambda x: x[1], reverse=True)
RECURSIVE sorted_diseases(_)
sorted_diseases(items) ==
    IF items = <<>> THEN <<>>
    ELSE InsertByScore(items[Len(items)], sorted_diseases(SubSeq(items, 1, Len(items) - 1)))

\* the lines shown: (disease, score, risk_levels[disease])
ReportLines(ds, rl) ==
    LET sd == sorted_diseases(ds)
    IN [i \in 1..Len(sd) |-> <<sd[i][1], sd[i][2], DictGet(rl, sd[i][1])>>]

\* what the checker shows once the loop is over
show(ds, rl, plotly) ==
    IF ds # <<>> /\ plotly THEN [kind |-> "matches", lines |-> ReportLines(ds, rl)]
    ELSE [kind |-> "nomatch", lines |-> <<>>]

(***************************************************************************)
(* The inputs of a run: the spreadsheet, the search text, plotly.          *)
(***************************************************************************)
SeqsUpTo(S, n) == UNION {[1..k -> S] : k \in 0..n}

\* the pieces joined by commas
RECURSIVE Join(_)
Join(pieces) ==
    IF pieces = <<>> THEN <<>>
    ELSE IF Len(pieces) = 1 THEN Head(pieces)
    ELSE Head(pieces) \o <<",">> \o Join(Tail(pieces))

Pieces == {<<"a">>, <<" ", "B">>}

\* symptom cells: every text of up to MaxPieces pieces, an empty cell, blank pieces
PieceCells ==
    {Join(ps) : ps \in SeqsUpTo(Pieces, MaxPieces)} \cup {NaN, <<"a", ",", " ", ",">>}

BasicCells == {<<"a">>, <<" ", "B">>, <<"a", ",", " ", "B">>, NaN}

RedFlagCells == {<<>>, <<" ", "B">>, NaN}

NameCells == {<<"d">>, <<"M">>}

CheckerColumns == <<<<" ", "N", "a", "m", "e">>, COL_SYMPTOMS, COL_RED_FLAGS>>

BasicRows == {<<n, s, r>> : n \in NameCells, s \in BasicCells, r \in RedFlagCells}

PieceRows == {<<n, s, r>> : n \in NameCells, s \in PieceCells, r \in RedFlagCells}

\* up to MaxRecords basic rows, or a row of any PieceCells text next to a basic row
CheckerRowSeqs ==
    SeqsUpTo(BasicRows, MaxRecords)
    \cup {<<r>> : r \in PieceRows}
    \cup {<<r, q>> : r \in PieceRows, q \in BasicRows}
    \cup {<<q, r>> : r \in PieceRows, q \in BasicRows}

CheckerFiles ==
    {[kind |-> "ok", columns |-> CheckerColumns, rows |-> rs] : rs \in CheckerRowSeqs}

SearchNameCells == {<<"a", "b">>, <<"B">>, <<"a", ".">>}

SearchFiles ==
    {[kind |-> "ok", columns |-> <<COL_NAME>>, rows |-> rs] :
        rs \in SeqsUpTo({<<n>> : n \in SearchNameCells}, MaxRecords)}

QueryChars == {"a", "B", ".", "*", "(", " "}

Queries == SeqsUpTo(QueryChars, MaxQueryLen)

BadFiles ==
    {[kind |-> "notfound", columns |-> <<>>, rows |-> <<>>],
     [kind |-> "unreadable", columns |-> <<>>, rows |-> <<>>]}
    \cup {[kind |-> "ok", columns |-> <<<<"i", "d">>, COL_SYMPTOMS>>, rows |-> rs] :
            rs \in SeqsUpTo({<<<<"d">>, <<"a">>>>}, MaxRecords)}

Started ==
    /\ pc = "load"
    /\ df = <<>>
    /\ error = ""
    /\ symptom_map = <<>>
    /\ all_symptoms = <<>>
    /\ query = <<>>
    /\ search = [state |-> "idle", row |-> 0]
    /\ symptom_input = {}
    /\ disease_scores = <<>>
    /\ risk_levels = <<>>
    /\ report = [kind |-> "none", lines |-> <<>>]

Init ==
    /\ \/ file \in CheckerFiles /\ text_input = <<>> /\ px \in BOOLEAN
       \/ file \in SearchFiles /\ text_input \in Queries /\ px = TRUE
       \/ file \in BadFiles /\ text_input \in {<<>>, <<"a">>} /\ px \in BOOLEAN
    /\ Started

(***************************************************************************)
(* The script, top to bottom.                                              *)
(***************************************************************************)
\* df = load_disease_data(EXCEL_PATH); st.stop() ends the run
LoadData ==
    /\ pc = "load"
    /\ LET r == load_disease_data(file) IN
         /\ df' = r.df
         /\ error' = r.error
         /\ pc' = IF r.ok THEN "build" ELSE "stopped"
    /\ UNCHANGED <<file, text_input, px, symptom_map, all_symptoms, query, search,
                   symptom_input, disease_scores, risk_levels, report>>

\* the symptom map loop and all_symptoms = sorted(all_symptoms)
BuildVocabulary ==
    /\ pc = "build"
    /\ symptom_map' = BuildSymptomMap(df, <<>>)
    /\ all_symptoms' = sorted(SymptomSet(df))
    /\ pc' = "search"
    /\ UNCHANGED <<file, text_input, px, df, error, query, search, symptom_input,
                   disease_scores, risk_levels, report>>

\* the search box; an re.error is not caught and ends the run
NameSearch ==
    /\ pc = "search"
    /\ query' = lower(strip(text_input))
    /\ search' = name_search(df, query')
    /\ pc' = IF search'.state = "error" THEN "crashed" ELSE "checker"
    /\ UNCHANGED <<file, text_input, px, df, error, symptom_map, all_symptoms,
                   symptom_input, disease_scores, risk_levels, report>>

\* the multiselect over all_symptoms and the checker block
SymptomChecker ==
    /\ pc = "checker"
    /\ \E sel \in SUBSET ToSet(all_symptoms) :
         /\ symptom_input' = sel
         /\ IF sel # {}
            THEN LET r == ScoreRows(df, sel, <<>>, <<>>) IN
                   /\ disease_scores' = r[1]
                   /\ risk_levels' = r[2]
                   /\ report' = show(r[1], r[2], px)
            ELSE UNCHANGED <<disease_scores, risk_levels, report>>
    /\ pc' = "done"
    /\ UNCHANGED <<file, text_input, px, df, error, symptom_map, all_symptoms,
                   query, search>>

Next == LoadData \/ BuildVocabulary \/ NameSearch \/ SymptomChecker

Spec == Init /\ [][Next]_vars

TypeOK ==
    /\ pc \in {"load", "build", "search", "checker", "done", "stopped", "crashed"}
    /\ px \in BOOLEAN
    /\ search.state \in {"idle", "found", "notfound", "error"}
    /\ report.kind \in {"none", "matches", "nomatch"}

(***************************************************************************)
(* The properties.  The statements below describe the results without the  *)
(* script's loops: a text's tokens are read off its comma-free segments.    *)
(***************************************************************************)
\* the maximal comma-free segments <<first, last>> of a text
Segments(text) ==
    {seg \in (1..(Len(text) + 1)) \X (0..Len(text)) :
        /\ seg[1] <= seg[2] + 1
        /\ seg[1] = 1 \/ text[seg[1] - 1] = ","
        /\ seg[2] = Len(text) \/ text[seg[2] + 1] = ","
        /\ \A k \in seg[1]..seg[2] : text[k] # ","}

\* a segment trimmed and lowercased
SegmentToken(text, seg) == lower(strip(SubSeq(text, seg[1], seg[2])))

\* the set of trimmed, lowercased, non-empty tokens of a text
NormTokens(text) == {SegmentToken(text, seg) : seg \in Segments(text)} \ {<<>>}

\* how many times a token occurs in a text
Occurrences(text, t) == Cardinality({seg \in Segments(text) : SegmentToken(text, seg) = t})

Rows == 1..Len(df)

SymptomTokens(i) == NormTokens(str(df[i].symptoms))

RedFlagTokens(i) == NormTokens(str(df[i].red_flags))

Shared(i) == symptom_input \cap SymptomTokens(i)

DistinctNames == \A i, j \in Rows : i # j => df[i].name # df[j].name

Built == pc \in {"search", "checker", "done", "crashed"}

\* no cell of the table is empty
NoEmptyCell == \A i \in Rows : df[i].symptoms # NaN /\ df[i].red_flags # NaN

NoDuplicateKeys(d) == \A i, j \in 1..Len(d) : i # j => d[i][1] # d[j][1]

\* n copies of x
Copies(x, n) == [k \in 1..n |-> x]

\* the names of rows 1..n, each once per occurrence of the token in the row
RECURSIVE NamesWith(_, _)
NamesWith(t, n) ==
    IF n = 0 THEN <<>>
    ELSE NamesWith(t, n - 1) \o Copies(df[n].name, Occurrences(str(df[n].symptoms), t))

\* C8: after the vocabulary is built, all_symptoms is strictly ascending and
\* holds exactly the trimmed, lowercased, non-empty tokens of the rows'
\* symptoms texts; symptom_map has one key per token, and a token's list is
\* the names of the rows holding the token, in scan order, a name being
\* repeated when its token is (nothing is deduplicated).
C8_VocabularySortedAndMapped ==
    Built =>
        /\ \A i, j \in 1..Len(all_symptoms) :
               i < j => StrLess(all_symptoms[i], all_symptoms[j])
        /\ ToSet(all_symptoms) = UNION {SymptomTokens(i) : i \in Rows}
        /\ ToSet(DictKeys(symptom_map)) = ToSet(all_symptoms)
        /\ NoDuplicateKeys(symptom_map)
        /\ \A t \in ToSet(all_symptoms) :
               DictGet(symptom_map, t) = NamesWith(t, Len(df))

\* two tokens whose first-seen order is not the sorted order, one of them
\* held by two rows of different names
C8_Witness ==
    /\ Built
    /\ Len(all_symptoms) >= 2
    /\ DictKeys(symptom_map) # all_symptoms
    /\ \E t \in ToSet(all_symptoms) :
           /\ Len(DictGet(symptom_map, t)) >= 2
           /\ Cardinality(ToSet(DictGet(symptom_map, t))) >= 2

\* C1: with pairwise distinct names, a row has an entry in disease_scores
\* exactly when the selection shares a token with its symptom tokens, the
\* entry's value is the number of shared tokens, a row that overlaps the
\* selection only through its red flags has no entry, and an empty selection
\* yields no entry at all.
C1_EmittedIffSharedToken ==
    (pc = "done" /\ DistinctNames) =>
        /\ symptom_input = {} => disease_scores = <<>> /\ report.kind = "none"
        /\ NoDuplicateKeys(disease_scores)
        /\ ToSet(DictKeys(disease_scores)) = {df[i].name : i \in {j \in Rows : Shared(j) # {}}}
        /\ \A i \in Rows :
               Shared(i) # {} => DictGet(disease_scores, df[i].name) = Cardinality(Shared(i))

\* one row emitted with two shared tokens, another left out although its red
\* flags overlap the selection
C1_Witness ==
    /\ pc = "done"
    /\ DistinctNames
    /\ \E i, j \in Rows :
           /\ DictHas(disease_scores, df[i].name)
           /\ DictGet(disease_scores, df[i].name) = 2
           /\ Shared(j) = {}
           /\ symptom_input \cap RedFlagTokens(j) # {}
           /\ ~DictHas(disease_scores, df[j].name)

\* the first row of a name that shares a token with the selection
FirstRow(name) ==
    CHOOSE i \in Rows :
        /\ df[i].name = name /\ Shared(i) # {}
        /\ \A j \in Rows : (df[j].name = name /\ Shared(j) # {}) => i <= j

\* C4: the reported list is in descending order of score, and two entries of
\* equal score stand in the order of their rows in the table (the row of an
\* entry being the first matching row of its name); no other key is applied.
C4_SortedByScoreStable ==
    (pc = "done" /\ report.kind = "matches") =>
        \A p, q \in 1..Len(report.lines) :
            p < q =>
                /\ report.lines[p][2] >= report.lines[q][2]
                /\ report.lines[p][2] = report.lines[q][2] =>
                       FirstRow(report.lines[p][1]) < FirstRow(report.lines[q][1])

\* two entries of equal score whose names are in descending order: sorting
\* by name would swap them
C4_Witness ==
    /\ pc = "done"
    /\ report.kind = "matches"
    /\ Len(report.lines) >= 2
    /\ report.lines[1][2] = report.lines[2][2]
    /\ StrLess(report.lines[2][1], report.lines[1][1])
    /\ report.lines[1][3] # report.lines[2][3]

\* the file cannot be read, or no header is 'name' once trimmed and lowercased
LoadFails ==
    \/ file.kind # "ok"
    \/ \A c \in 1..Len(file.columns) : lower(strip(file.columns[c])) # COL_NAME

\* C9: when the file cannot be read or has no 'name' column, the run stops at
\* the load with the error shown, and from then on the vocabulary is not
\* built and neither the search nor the checker produces anything.
C9_LoadFailureHalts ==
    (LoadFails /\ pc # "load") =>
        /\ pc = "stopped"
        /\ error # ""
        /\ symptom_map = <<>> /\ all_symptoms = <<>>
        /\ search.state = "idle"
        /\ disease_scores = <<>> /\ risk_levels = <<>> /\ report.kind = "none"

\* a readable table without a 'name' column, rows present, search text typed
C9_Witness ==
    /\ pc = "stopped"
    /\ file.kind = "ok"
    /\ file.rows # <<>>
    /\ text_input # <<>>

\* C2: with pairwise distinct names, an emitted row whose red flags share no
\* token with the selection is Medium exactly when its score over the number
\* of its distinct symptom tokens (at least 1) exceeds one half, else Low.
\* (Stated for tables without an empty cell.)
C2_RatioOverDistinctTokens ==
    (pc = "done" /\ DistinctNames /\ NoEmptyCell) =>
        \A i \in Rows :
            (Shared(i) # {} /\ symptom_input \cap RedFlagTokens(i) = {}) =>
                /\ DictHas(risk_levels, df[i].name)
                /\ DictGet(risk_levels, df[i].name) =
                       IF 2 * Cardinality(Shared(i)) > Max(Cardinality(SymptomTokens(i)), 1)
                       THEN "Medium" ELSE "Low"

\* C3: every row whose red flags share a token with the selection and whose
\* score is above 0 has the risk level High, whatever its ratio.  (Stated for
\* tables without an empty cell, plotly imported.)
C3_RedFlagIsHigh ==
    (pc = "done" /\ NoEmptyCell /\ px) =>
        \A i \in Rows :
            (Shared(i) # {} /\ symptom_input \cap RedFlagTokens(i) # {}) =>
                /\ DictHas(risk_levels, df[i].name)
                /\ DictGet(risk_levels, df[i].name) = "High"

\* C5: every row that shares a token with the selection has an entry of its
\* own, carrying its own score, also when another row has the same name.
\* (Stated for tables without an empty cell, plotly imported.)
C5_EveryRowOwnEntry ==
    (pc = "done" /\ NoEmptyCell /\ px) =>
        /\ Len(disease_scores) = Cardinality({i \in Rows : Shared(i) # {}})
        /\ \A i \in Rows :
               Shared(i) # {} =>
                   \E p \in 1..Len(disease_scores) :
                       disease_scores[p] = <<df[i].name, Cardinality(Shared(i))>>

\* q occurs in s as a run of consecutive characters
Contains(s, q) ==
    \E k \in 0..(Len(s) - Len(q)) : SubSeq(s, k + 1, k + Len(q)) = q

\* the rows whose name contains the stripped, lowercased search text
Hits == {i \in Rows : Contains(df[i].name, lower(strip(text_input)))}

\* C6: the search returns the first row whose name contains the search text
\* as a literal substring, whatever characters the text holds, and nothing
\* when no name contains it or when the text is empty.  (Stated for tables
\* with at least one row.)
C6_LiteralSubstringSearch ==
    (pc \in {"checker", "done", "crashed"} /\ df # <<>>) =>
        IF lower(strip(text_input)) = <<>> \/ Hits = {}
        THEN search.state \in {"idle", "notfound"} /\ search.row = 0
        ELSE /\ search.state = "found"
             /\ search.row \in Hits
             /\ \A i \in Hits : search.row <= i

\* an empty or missing cell
EmptyCell(c) == c = NaN \/ c = <<>>

\* C7: a row whose symptoms cell is empty adds no token to the vocabulary
\* and is never emitted; a row whose red_flags cell is empty is never High.
C7_EmptyCellNeverMatches ==
    /\ Built =>
           ToSet(all_symptoms) =
               UNION {SymptomTokens(i) : i \in {j \in Rows : ~EmptyCell(df[j].symptoms)}}
    /\ (pc = "done" /\ DistinctNames) =>
           \A i \in Rows :
               /\ EmptyCell(df[i].symptoms) => ~DictHas(disease_scores, df[i].name)
               /\ (EmptyCell(df[i].red_flags) /\ DictHas(risk_levels, df[i].name)) =>
                      DictGet(risk_levels, df[i].name) # "High"

\* C10: for a non-empty selection the reported entries are those of
\* disease_scores whether or not plotly was imported, and 'no conditions
\* match' is shown only when no row shares a token with the selection.
\* (Stated for tables without an empty cell.)
C10_ReportIgnoresPlotly ==
    (pc = "done" /\ symptom_input # {} /\ NoEmptyCell) =>
        /\ report.kind = "nomatch" => \A i \in Rows : Shared(i) = {}
        /\ Len(report.lines) = Len(disease_scores)

====
